---- MODULE Spec2Model ----
(***************************************************************************)
(* State-machine model of the CanvasEditor component                       *)
(* (src/src/components/CanvasEditor.tsx, first definition, lines 15-735):  *)
(* the React state of the editor, the Fabric canvas object stack and the   *)
(* snapshot history, with one action per event handler.                    *)
(*                                                                         *)
(* Conventions.                                                            *)
(*  - A handler reads the state of the latest render; every handler is one *)
(*    atomic action.  fabricCanvas is non-null (the editor is mounted).    *)
(*  - canvas.loadFromJSON is asynchronous: handleUndo / handleRedo start a *)
(*    load (an element of pending) and LoadComplete is its continuation.   *)
(*  - The effect running updatePathVisualization is applied at the end of  *)
(*    every action (Viz): the effect lists tempObjects, which it sets      *)
(*    itself, among its dependencies, so it re-runs after every render.    *)
(*  - A canvas object carries the properties the handlers read or write;   *)
(*    ref says which piece of React state holds a reference to the object  *)
(*    ("base": baseImage, "temp": tempObjects, "none": nobody).            *)
(*  - Points are integer pixel coordinates <<x, y>>.                       *)
(*  - The pixel functions of src/src/utils/bezierUtils.ts (compositing,    *)
(*    flood fill) are modelled on the variable call, which holds the       *)
(*    arguments, the working storage and the result of one call.           *)
(***************************************************************************)
EXTENDS Integers, Sequences, FiniteSets, TLC

\* ------------------------------------------------------------------ bounds
MaxSegments == 2
MaxClock == 2
MaxSteps == 8
MaxPath == 4
MaxPending == 1
MaxCallSteps == 5
MaxHistorySteps == 22
MaxIdSteps == 6
MaxExportSteps == 8
MaxStackSteps == 11
MaxSnapSteps == 7
MaxOwnerSteps == 7
MaxPixels == 2
MaxWidth == 2
MaxPolygon == 3
MaskSide == 5

\* ------------------------------------------------------- input alphabets
\* click positions: P0 start, P1 and P2 far away, P3 at distance sqrt(5) of
\* P0, P4 at distance exactly 15 of P0
P0 == <<10, 10>>
P1 == <<100, 10>>
P2 == <<100, 100>>
P3 == <<12, 11>>
P4 == <<25, 10>>
Points == {P0, P1, P2, P3, P4}

DefaultColor == "#ff6b6b"
OtherColor == "#4ecdc4"
Colors == {DefaultColor, OtherColor}

Tools == {"pencil", "pen", "line", "eraser", "zoom"}
\* the tools and click positions exercised by the full editor specification
ToolInputs == {"pencil", "line"}
ClickInputs == {P0, P1}

NoId == 0
CloseTolerance == 15
\* the documented depth of the history ("Undo/Redo up to 20 steps")
HistoryCap == 20

VARIABLES
  history,          \* useState<string[]>: the snapshots
  historyIndex,     \* useState(-1): the cursor, 0-based
  segments,         \* useState<Segment[]>
  activeSegmentId,  \* useState<string | null>, NoId for null
  currentPath,      \* useState<Point[]>
  isDrawingPath,    \* useState(false)
  canvas,           \* fabricCanvas.getObjects(), bottom to top
  baseImage,        \* useState<FabricImage | null>: "null" or "set"
  activeTool,       \* useState<DrawingTool>("pencil")
  isDrawingMode,    \* fabricCanvas.isDrawingMode
  color,            \* useState("#ff6b6b")
  snapAngles,       \* useState(false): the "Angle Snap" switch
  now,              \* the reading of Date.now()
  pending,          \* loadFromJSON promises not yet resolved
  dataURL,          \* what the last toDataURL rendered, bottom to top
  call,             \* the image-processing call in progress (bezierUtils)
  op,               \* the handler that ran last, with its arguments
  mon,              \* observer: the document around the last mutation
  steps             \* observer: the number of events so far

vars == <<history, historyIndex, segments, activeSegmentId, currentPath,
          isDrawingPath, canvas, baseImage, activeTool, isDrawingMode,
          color, snapAngles, now, pending, dataURL, call, op, mon, steps>>

\* ------------------------------------------------------------ pure helpers
Min(a, b) == IF a < b THEN a ELSE b

\* Array.prototype.find(s => s.id === id): the first match, or <<>> for none
Find(segs, id) ==
  LET hits == SelectSeq(segs, LAMBDA s : s.id = id)
  IN IF hits = <<>> THEN <<>> ELSE <<hits[1]>>

\* dx * dx + dy * dy of the closure test (the square of `distance`)
Abs(x) == IF x < 0 THEN -x ELSE x

\* Math.round(n / d) for d > 0: the nearest integer, halves upwards
Round(n, d) == (2 * n + d) \div (2 * d)

RECURSIVE SqrtBetween(_, _, _)
SqrtBetween(x, lo, hi) ==
  IF lo >= hi THEN lo
  ELSE LET mid == (lo + hi + 1) \div 2
       IN IF mid * mid <= x THEN SqrtBetween(x, mid, hi)
          ELSE SqrtBetween(x, lo, mid - 1)

\* Math.round(angle / (Math.PI / 8)) for angle = Math.atan2(dy, dx): the
\* number of the nearest multiple of 22.5 degrees, -8..8; the sectors are
\* told apart by the tangents of 11.25, 33.75, 56.25 and 78.75 degrees
snapAngle(dx, dy) ==
  LET ax == Abs(dx)
      ay == Abs(dy)
      s == IF ay * 1000000 < 198912 * ax THEN 0
           ELSE IF ay * 1000000 < 668179 * ax THEN 1
           ELSE IF ay * 1000000 < 1496606 * ax THEN 2
           ELSE IF ay * 1000000 < 5027339 * ax THEN 3
           ELSE 4
  IN IF dx = 0 /\ dy = 0 THEN 0
     ELSE IF dy >= 0 THEN (IF dx >= 0 THEN s ELSE 8 - s)
     ELSE (IF dx >= 0 THEN -s ELSE s - 8)

\* Math.cos and Math.sin of k * Math.PI / 8, in ten-thousandths
Cos(k) == <<10000, 9239, 7071, 3827, 0, -3827, -7071, -9239, -10000>>[Abs(k) + 1]
Sin(k) == (IF k < 0 THEN -1 ELSE 1)
            * <<0, 3827, 7071, 9239, 10000, 9239, 7071, 3827, 0>>[Abs(k) + 1]

\* Math.sqrt(dx * dx + dy * dy), in hundredths
Distance(dx, dy) == SqrtBetween((dx * dx + dy * dy) * 10000, 0, 40000)

\* the snapped point of handleCanvasMouseDown, to the nearest pixel
Snapped(point, lastPoint) ==
  LET dx == point[1] - lastPoint[1]
      dy == point[2] - lastPoint[2]
      k == snapAngle(dx, dy)
      distance == Distance(dx, dy)
  IN << lastPoint[1] + Round(distance * Cos(k), 1000000),
        lastPoint[2] + Round(distance * Sin(k), 1000000) >>

\* the clicks whose snapped point has whole coordinates: the snapped
\* direction is an axis and the distance a whole number, or it is a
\* diagonal and the distance a whole multiple of the square root of two
WholeSnap(point, lastPoint) ==
  LET dx == point[1] - lastPoint[1]
      dy == point[2] - lastPoint[2]
      d2 == dx * dx + dy * dy
      k == snapAngle(dx, dy)
      root == SqrtBetween(d2, 0, 1000)
      half == SqrtBetween(d2 \div 2, 0, 1000)
  IN \/ k \in {-8, -4, 0, 4, 8} /\ root * root = d2
     \/ k \in {-6, -2, 2, 6} /\ 2 * half * half = d2

DistSq(a, b) == (a[1] - b[1]) * (a[1] - b[1]) + (a[2] - b[2]) * (a[2] - b[2])

\* Math.sqrt(dx * dx + dy * dy) < 15, on integer coordinates
IsNearStart(p, start) == DistSq(p, start) < CloseTolerance * CloseTolerance

createPathFromPoints(points, strokeColor, segmentId) ==
  IF Len(points) < 2 THEN <<>>
  ELSE << [type |-> "path", segmentId |-> segmentId, isSegmentPath |-> "true",
           fill |-> "", pts |-> points,
           visible |-> TRUE, evented |-> FALSE, ref |-> "none"] >>

createFilledRegion(points, fillColor, segmentId) ==
  IF Len(points) < 3 THEN <<>>
  ELSE << [type |-> "path", segmentId |-> segmentId, isSegmentPath |-> "false",
           fill |-> fillColor, pts |-> points,
           visible |-> TRUE, evented |-> TRUE, ref |-> "none"] >>

ControlPoint(point, col) ==
  [type |-> "circle", segmentId |-> NoId, isSegmentPath |-> "undefined",
   fill |-> col, pts |-> <<point>>,
   visible |-> TRUE, evented |-> FALSE, ref |-> "temp"]

FreehandStroke(col) ==
  [type |-> "path", segmentId |-> NoId, isSegmentPath |-> "undefined",
   fill |-> "", pts |-> <<>>,
   visible |-> TRUE, evented |-> TRUE, ref |-> "none"]

BaseImageObject ==
  [type |-> "image", segmentId |-> NoId, isSegmentPath |-> "undefined",
   fill |-> "", pts |-> <<>>,
   visible |-> TRUE, evented |-> FALSE, ref |-> "base"]

\* tempObjects.forEach(obj => fabricCanvas.remove(obj))
RemoveTemp(cv) == SelectSeq(cv, LAMBDA o : o.ref # "temp")

\* obj.segmentId === segmentId && !obj.isSegmentPath
IsFillOf(o, id) == o.segmentId = id /\ o.isSegmentPath # "true"
IsFill(o) == o.segmentId # NoId /\ o.isSegmentPath # "true"
Fills(cv) == SelectSeq(cv, IsFill)

\* variant: canvas.toJSON() without the list of custom properties
toJSON_NoCustomProps(cv) ==
  [i \in 1..Len(cv) |->
     [type |-> cv[i].type, segmentId |-> NoId,
      isSegmentPath |-> "undefined", fill |-> cv[i].fill,
      pts |-> cv[i].pts, visible |-> cv[i].visible]]

\* canvas.toJSON(['segmentId', 'isSegmentPath', 'originalColor']): the
\* serialised properties of every object, in stacking order; object identity
\* (ref) and the evented flag are not serialised
toJSON(cv) ==
  [i \in 1..Len(cv) |->
     [type |-> cv[i].type, segmentId |-> cv[i].segmentId,
      isSegmentPath |-> cv[i].isSegmentPath, fill |-> cv[i].fill,
      pts |-> cv[i].pts, visible |-> cv[i].visible]]

\* canvas.loadFromJSON(state): clear, then add freshly built objects; nobody
\* holds a reference to them and evented is back to its default (true)
loadFromJSON(state) ==
  [i \in 1..Len(state) |->
     [type |-> state[i].type, segmentId |-> state[i].segmentId,
      isSegmentPath |-> state[i].isSegmentPath, fill |-> state[i].fill,
      pts |-> state[i].pts,
      visible |-> state[i].visible, evented |-> TRUE, ref |-> "none"]]

\* updatePathVisualization, on the state the render hands to the effect
Viz(cv, path, col, active) ==
  IF path = <<>> \/ active = NoId THEN cv
  ELSE LET tempPath == IF Len(path) > 1
                       THEN [createPathFromPoints(path, col, NoId)
                               EXCEPT ![1].ref = "temp"]
                       ELSE <<>>
           circles == [i \in 1..Len(path) |-> ControlPoint(path[i], col)]
       IN RemoveTemp(cv) \o tempPath \o circles

\* fabricCanvas.getObjects().indexOf(baseImage), 0-based, -1 when absent
IndexOfBase(cv) ==
  IF \E i \in 1..Len(cv) : cv[i].ref = "base"
  THEN (CHOOSE i \in 1..Len(cv) : cv[i].ref = "base") - 1
  ELSE -1

\* fabricCanvas.moveTo(obj, index) for an object that was added last
MoveLastTo(cv, index) ==
  LET n == Len(cv)
      k == Min(IF index < 0 THEN 0 ELSE index, n - 1)
  IN SubSeq(cv, 1, k) \o <<cv[n]>> \o SubSeq(cv, k + 1, n - 1)

\* variant: the active region is not tested
HasActiveSegment_Unchecked == TRUE

\* the test of `!activeSegmentId` in handleCanvasMouseDown and finalizePath
HasActiveSegment == activeSegmentId # NoId

\* history[i] of a JavaScript array (0-based); ok is false for undefined
StateAt(i) ==
  IF i \in 0..(Len(history) - 1)
  THEN [state |-> history[i + 1], ok |-> TRUE]
  ELSE [state |-> <<>>, ok |-> FALSE]

\* variant: undo allowed on the first snapshot
canUndo_OffByOne == historyIndex >= 0

canUndo == historyIndex > 0
canRedo == historyIndex < Len(history) - 1

\* variant: the snapshot is pushed without history.slice(0, historyIndex + 1)
SavedHistory_NoTruncate(cv) == history \o <<toJSON(cv)>>

\* saveState: the history and the cursor after a snapshot of cv is pushed
SavedHistory(cv) == SubSeq(history, 1, historyIndex + 1) \o <<toJSON(cv)>>
SavedIndex(cv) == Len(SavedHistory(cv)) - 1

saveState(cv) ==
  /\ history' = SavedHistory(cv)
  /\ historyIndex' = SavedIndex(cv)

\* the editor specification follows MaxSteps events (user input, clock and
\* image arrival; the completion of a load is not counted)
CanStep == steps < MaxSteps

SegmentIds == {segments[i].id : i \in 1..Len(segments)}

\* what an object stack shows: the drawn properties of each object
Shown(cv) ==
  [i \in 1..Len(cv) |->
     [type |-> cv[i].type, segmentId |-> cv[i].segmentId,
      isSegmentPath |-> cv[i].isSegmentPath, fill |-> cv[i].fill,
      pts |-> cv[i].pts, visible |-> cv[i].visible]]

\* the document as the user sees it: the region list and the fills
Doc == [segments |-> segments, fills |-> Shown(Fills(canvas))]

Idle == [stage |-> "idle", kind |-> "", clean |-> FALSE, cut |-> 0,
         pre |-> [segments |-> <<>>, fills |-> <<>>], post |-> <<>>, idx |-> -1]

\* the handler that ran: its name, the region it was about, the number of
\* points it was given, a flag (closed / canUndo / canRedo) and the pointer
Ran(name, id, n, flag, pt) ==
  [name |-> name, id |-> id, n |-> n, flag |-> flag, pt |-> pt]

NoPoint == <<0, 0>>

\* observer bookkeeping after a handler that committed a mutation
Mutated(name) ==
  mon' = [stage |-> "mutated", kind |-> name, clean |-> pending = {},
          cut |-> Len(history) - 1 - historyIndex, pre |-> Doc, post |-> Shown(canvas'), idx |-> historyIndex']

TypeOK ==
  /\ historyIndex \in -1..MaxSteps
  /\ Len(history) <= MaxSteps
  /\ steps \in 0..MaxSteps
  /\ Len(segments) <= MaxSegments
  /\ activeSegmentId \in 0..MaxClock
  /\ isDrawingPath \in BOOLEAN
  /\ baseImage \in {"null", "set"}
  /\ activeTool \in Tools
  /\ color \in Colors
  /\ snapAngles \in BOOLEAN
  /\ now \in 0..MaxClock

\* the editor right after mount
EditorInit ==
  /\ history = <<>>
  /\ historyIndex = -1
  /\ segments = <<>>
  /\ activeSegmentId = NoId
  /\ currentPath = <<>>
  /\ isDrawingPath = FALSE
  /\ canvas = <<>>
  /\ baseImage = "null"
  /\ activeTool = "pencil"
  /\ isDrawingMode = FALSE
  /\ color = DefaultColor
  /\ snapAngles = FALSE
  /\ now = 0
  /\ pending = {}
  /\ dataURL = <<>>
  /\ op = Ran("init", NoId, 0, FALSE, NoPoint)
  /\ mon = Idle
  /\ steps = 0

\* no image-processing call has been made
NoCall == [name |-> "none"]

Init ==
  /\ EditorInit
  /\ call = NoCall

\* ----------------------------------------------------------------- actions
\* img.onload -> FabricImage.fromURL(...).then: the base image arrives
ImageLoaded ==
  /\ baseImage = "null"
  /\ LET cv == <<BaseImageObject>> \o canvas
     IN /\ canvas' = Viz(cv, currentPath, color, activeSegmentId)
        /\ saveState(cv)
  /\ baseImage' = "set"
  /\ op' = Ran("initializeCanvas", NoId, 0, FALSE, NoPoint)
  /\ steps' = steps + 1
  /\ UNCHANGED <<snapAngles, dataURL, call>>
  /\ mon' = Idle
  /\ UNCHANGED <<segments, activeSegmentId, currentPath, isDrawingPath,
                 activeTool, isDrawingMode, color, now, pending>>

\* handleSegmentCreate when Date.now() reads t (the clock never runs backwards)
handleSegmentCreate(t) ==
  /\ Len(segments) < MaxSegments
  /\ t >= now
  /\ now' = t
  /\ segments' = Append(segments, [id |-> t, color |-> color, visible |-> TRUE,
                                   closed |-> FALSE, points |-> <<>>])
  /\ activeSegmentId' = t
  /\ canvas' = Viz(canvas, currentPath, color, t)
  /\ op' = Ran("handleSegmentCreate", t, 0, FALSE, NoPoint)
  /\ steps' = steps + 1
  /\ UNCHANGED <<snapAngles, dataURL, call>>
  /\ mon' = Idle
  /\ UNCHANGED <<history, historyIndex, currentPath, isDrawingPath, baseImage,
                 activeTool, isDrawingMode, color, pending>>

handleSegmentSelect(segmentId) ==
  /\ activeSegmentId' = segmentId
  /\ canvas' = Viz(canvas, currentPath, color, segmentId)
  /\ op' = Ran("handleSegmentSelect", segmentId, 0, FALSE, NoPoint)
  /\ steps' = steps + 1
  /\ UNCHANGED <<snapAngles, dataURL, call>>
  /\ mon' = Idle
  /\ UNCHANGED <<history, historyIndex, segments, currentPath, isDrawingPath,
                 baseImage, activeTool, isDrawingMode, color, now, pending>>

handleSegmentDelete(segmentId) ==
  /\ LET cv == SelectSeq(canvas, LAMBDA o : o.segmentId # segmentId)
         active == IF activeSegmentId = segmentId THEN NoId ELSE activeSegmentId
     IN /\ segments' = SelectSeq(segments, LAMBDA seg : seg.id # segmentId)
        /\ activeSegmentId' = active
        /\ saveState(cv)
        /\ canvas' = Viz(cv, currentPath, color, active)
  /\ op' = Ran("handleSegmentDelete", segmentId, 0, FALSE, NoPoint)
  /\ steps' = steps + 1
  /\ UNCHANGED <<snapAngles, dataURL, call>>
  /\ Mutated("handleSegmentDelete")
  /\ UNCHANGED <<currentPath, isDrawingPath, baseImage, activeTool,
                 isDrawingMode, color, now, pending>>

handleSegmentToggleVisibility(segmentId) ==
  /\ LET segment == Find(segments, segmentId)
     IN IF segment # <<>>
        THEN LET newVisibility == ~segment[1].visible
                 cv == [i \in 1..Len(canvas) |->
                          IF canvas[i].segmentId = segmentId
                          THEN [canvas[i] EXCEPT !.visible = newVisibility]
                          ELSE canvas[i]]
             IN /\ canvas' = Viz(cv, currentPath, color, activeSegmentId)
                /\ segments' = [i \in 1..Len(segments) |->
                                  IF segments[i].id = segmentId
                                  THEN [segments[i] EXCEPT !.visible = newVisibility]
                                  ELSE segments[i]]
        ELSE UNCHANGED <<canvas, segments>>
  /\ op' = Ran("handleSegmentToggleVisibility", segmentId, 0, FALSE, NoPoint)
  /\ steps' = steps + 1
  /\ UNCHANGED <<snapAngles, dataURL, call>>
  /\ mon' = Idle
  /\ UNCHANGED <<history, historyIndex, activeSegmentId, currentPath,
                 isDrawingPath, baseImage, activeTool, isDrawingMode, color,
                 now, pending>>

\* variant: the tool is switched and the path in progress is kept
handleToolChange_KeepsPath(tool) ==
  /\ activeTool' = tool
  /\ isDrawingMode' = (tool = "pencil")
  /\ op' = Ran("handleToolChange", NoId, Len(currentPath), isDrawingPath,
            NoPoint)
  /\ steps' = steps + 1
  /\ UNCHANGED <<snapAngles, dataURL, call>>
  /\ mon' = Idle
  /\ UNCHANGED <<history, historyIndex, segments, activeSegmentId, baseImage,
                 color, now, pending, canvas, currentPath, isDrawingPath>>

handleToolChange(tool) ==
  /\ activeTool' = tool
  /\ canvas' = RemoveTemp(canvas)
  /\ currentPath' = <<>>
  /\ isDrawingPath' = FALSE
  /\ isDrawingMode' = (tool = "pencil")
  /\ op' = Ran("handleToolChange", NoId, Len(currentPath), isDrawingPath,
            NoPoint)
  /\ steps' = steps + 1
  /\ UNCHANGED <<snapAngles, dataURL, call>>
  /\ mon' = Idle
  /\ UNCHANGED <<history, historyIndex, segments, activeSegmentId, baseImage,
                 color, now, pending>>

\* the body of finalizePath below its guard (an active segment exists)
finalizePath(pathPoints, closed) ==
  LET cv == RemoveTemp(canvas)
              \o createPathFromPoints(pathPoints, color, activeSegmentId)
  IN /\ canvas' = cv
     /\ segments' = [i \in 1..Len(segments) |->
                       IF segments[i].id = activeSegmentId
                       THEN [segments[i] EXCEPT !.points = pathPoints,
                                                !.closed = closed]
                       ELSE segments[i]]
     /\ currentPath' = <<>>
     /\ isDrawingPath' = FALSE
     /\ saveState(cv)

\* applyColorToSegment below its guard: segment is the region found
applyFill(segment, segmentId, fillColor, brush) ==
  LET cleared == SelectSeq(canvas, LAMBDA o : ~IsFillOf(o, segmentId))
      filledRegion == createFilledRegion(segment.points, fillColor, segmentId)
      added == cleared \o filledRegion
      cv == IF baseImage # "null"
            THEN MoveLastTo(added, IndexOfBase(added) + 1)
            ELSE added
  IN IF filledRegion # <<>>
     THEN /\ canvas' = Viz(cv, currentPath, brush, activeSegmentId)
          /\ saveState(cv)
          /\ segments' = [i \in 1..Len(segments) |->
                            IF segments[i].id = segmentId
                            THEN [segments[i] EXCEPT !.color = fillColor]
                            ELSE segments[i]]
          /\ Mutated("applyColorToSegment")
     ELSE /\ canvas' = Viz(cleared, currentPath, brush, activeSegmentId)
          /\ UNCHANGED <<segments, history, historyIndex>>
          /\ mon' = Idle

\* variant: the closed flag is not tested
Fillable_IgnoreClosed(segmentId) ==
  LET segment == Find(segments, segmentId)
  IN segment # <<>> /\ Len(segment[1].points) >= 3

\* !segment || !segment.closed || segment.points.length < 3
Fillable(segmentId) ==
  LET segment == Find(segments, segmentId)
  IN segment # <<>> /\ segment[1].closed /\ Len(segment[1].points) >= 3

applyColorToSegment(segmentId, fillColor) ==
  /\ IF Fillable(segmentId)
     THEN applyFill(Find(segments, segmentId)[1], segmentId, fillColor, color)
     ELSE /\ UNCHANGED <<canvas, segments, history, historyIndex>>
          /\ mon' = Idle
  /\ op' = Ran("applyColorToSegment", segmentId, 0, FALSE, NoPoint)
  /\ steps' = steps + 1
  /\ UNCHANGED <<snapAngles, dataURL, call>>
  /\ UNCHANGED <<activeSegmentId, currentPath, isDrawingPath, baseImage,
                 activeTool, isDrawingMode, color, now, pending>>

handleColorChange(newColor) ==
  /\ color' = newColor
  /\ LET segment == Find(segments, activeSegmentId)
     IN IF activeSegmentId # NoId /\ segment # <<>> /\ segment[1].closed
        THEN IF Fillable(activeSegmentId)
             THEN applyFill(segment[1], activeSegmentId, newColor, newColor)
             ELSE /\ canvas' = Viz(canvas, currentPath, newColor, activeSegmentId)
                  /\ UNCHANGED <<segments, history, historyIndex>>
                  /\ mon' = Idle
        ELSE /\ canvas' = Viz(canvas, currentPath, newColor, activeSegmentId)
             /\ UNCHANGED <<segments, history, historyIndex>>
             /\ mon' = Idle
  /\ op' = Ran("handleColorChange", activeSegmentId, 0, FALSE, NoPoint)
  /\ steps' = steps + 1
  /\ UNCHANGED <<snapAngles, dataURL, call>>
  /\ UNCHANGED <<activeSegmentId, currentPath, isDrawingPath, baseImage,
                 activeTool, isDrawingMode, now, pending>>

\* the "Angle Snap" button of ColorPicker: onSnapToAngleChange(!snapToAngle)
onSnapToAngleChange ==
  /\ snapAngles' = ~snapAngles
  /\ mon' = Idle
  /\ op' = Ran("onSnapToAngleChange", activeSegmentId, Len(currentPath),
            snapAngles, NoPoint)
  /\ steps' = steps + 1
  /\ UNCHANGED <<history, historyIndex, segments, activeSegmentId, currentPath,
                 isDrawingPath, canvas, baseImage, activeTool, isDrawingMode,
                 color, now, pending, dataURL, call>>

\* handleCanvasMouseDown, case "line" / "pen"
MouseDownDraw(point) ==
  /\ activeTool \in {"line", "pen"}
  /\ IF ~HasActiveSegment
     THEN /\ UNCHANGED <<canvas, segments, currentPath, isDrawingPath,
                         history, historyIndex>>
          /\ mon' = Idle
     ELSE IF ~isDrawingPath
     THEN /\ currentPath' = <<point>>
          /\ isDrawingPath' = TRUE
          /\ canvas' = Viz(canvas, <<point>>, color, activeSegmentId)
          /\ UNCHANGED <<segments, history, historyIndex>>
          /\ mon' = Idle
     ELSE LET finalPoint ==
                IF activeTool = "line" /\ snapAngles /\ Len(currentPath) > 0
                THEN Snapped(point, currentPath[Len(currentPath)])
                ELSE point
              newPath == Append(currentPath, finalPoint)
              startPoint == newPath[1]
          IN /\ Len(currentPath) < MaxPath
             /\ IF Len(newPath) > 2 /\ IsNearStart(finalPoint, startPoint)
                THEN /\ finalizePath(Append(newPath, startPoint), TRUE)
                     /\ Mutated("finalizePath")
                ELSE /\ currentPath' = newPath
                     /\ canvas' = Viz(canvas, newPath, color, activeSegmentId)
                     /\ UNCHANGED <<segments, isDrawingPath, history, historyIndex>>
                     /\ mon' = Idle
  /\ op' = Ran("handleCanvasMouseDown", activeSegmentId, Len(currentPath),
            isDrawingPath, point)
  /\ steps' = steps + 1
  /\ UNCHANGED <<snapAngles, dataURL, call>>
  /\ UNCHANGED <<activeSegmentId, baseImage, activeTool, isDrawingMode, color,
                 now, pending>>

\* handleCanvasMouseDown, case "eraser": target is the index of the object
\* findTarget returns (0 for none); only visible, evented objects are hit
MouseDownErase(target) ==
  /\ activeTool = "eraser"
  /\ target # 0 => canvas[target].visible /\ canvas[target].evented
  /\ IF target # 0 /\ canvas[target].segmentId # NoId
     THEN /\ LET cv == SubSeq(canvas, 1, target - 1)
                         \o SubSeq(canvas, target + 1, Len(canvas))
             IN /\ canvas' = Viz(cv, currentPath, color, activeSegmentId)
                /\ saveState(cv)
          /\ Mutated("eraser")
     ELSE /\ UNCHANGED <<canvas, history, historyIndex>>
          /\ mon' = Idle
  /\ op' = Ran("handleCanvasMouseDown", NoId, target, FALSE, NoPoint)
  /\ steps' = steps + 1
  /\ UNCHANGED <<snapAngles, dataURL, call>>
  /\ UNCHANGED <<segments, activeSegmentId, currentPath, isDrawingPath,
                 baseImage, activeTool, isDrawingMode, color, now, pending>>

\* canvas.on('path:created'): Fabric has added a free-drawn stroke
PathCreated ==
  /\ isDrawingMode
  /\ LET stroke == IF activeSegmentId # NoId /\ activeTool = "pencil"
                   THEN [FreehandStroke(color) EXCEPT
                           !.segmentId = activeSegmentId,
                           !.isSegmentPath = "true"]
                   ELSE FreehandStroke(color)
         cv == Append(canvas, stroke)
     IN /\ canvas' = Viz(cv, currentPath, color, activeSegmentId)
        /\ saveState(cv)
  /\ op' = Ran("path:created", activeSegmentId, 0, FALSE, NoPoint)
  /\ steps' = steps + 1
  /\ UNCHANGED <<snapAngles, dataURL, call>>
  /\ Mutated("path:created")
  /\ UNCHANGED <<segments, activeSegmentId, currentPath, isDrawingPath,
                 baseImage, activeTool, isDrawingMode, color, now, pending>>

\* handleUndo up to the call of loadFromJSON
handleUndo ==
  /\ IF canUndo
     THEN /\ Cardinality(pending) < MaxPending
          /\ pending' = pending \cup {[state |-> StateAt(historyIndex - 1).state,
                                       ok |-> StateAt(historyIndex - 1).ok,
                                       target |-> historyIndex - 1]}
          /\ mon' = IF mon.stage = "mutated" /\ mon.clean /\ pending = {}
                    THEN [mon EXCEPT !.stage = "undoing"] ELSE Idle
     ELSE /\ UNCHANGED pending
          /\ mon' = Idle
  /\ op' = Ran("handleUndo", NoId, 0, canUndo, NoPoint)
  /\ steps' = steps + 1
  /\ UNCHANGED <<snapAngles, dataURL, call>>
  /\ UNCHANGED <<history, historyIndex, segments, activeSegmentId, currentPath,
                 isDrawingPath, canvas, baseImage, activeTool, isDrawingMode,
                 color, now>>

\* handleRedo up to the call of loadFromJSON
handleRedo ==
  /\ IF canRedo
     THEN /\ Cardinality(pending) < MaxPending
          /\ pending' = pending \cup {[state |-> StateAt(historyIndex + 1).state,
                                       ok |-> StateAt(historyIndex + 1).ok,
                                       target |-> historyIndex + 1]}
          /\ mon' = IF mon.stage = "undone" /\ pending = {}
                    THEN [mon EXCEPT !.stage = "redoing"] ELSE Idle
     ELSE /\ UNCHANGED pending
          /\ mon' = Idle
  /\ op' = Ran("handleRedo", NoId, 0, canRedo, NoPoint)
  /\ steps' = steps + 1
  /\ UNCHANGED <<snapAngles, dataURL, call>>
  /\ UNCHANGED <<history, historyIndex, segments, activeSegmentId, currentPath,
                 isDrawingPath, canvas, baseImage, activeTool, isDrawingMode,
                 color, now>>

\* loadFromJSON(...).then(() => { renderAll(); setHistoryIndex(...) }); the
\* promise of a load of undefined is rejected and the callback never runs
LoadComplete(load) ==
  /\ load \in pending
  /\ pending' = pending \ {load}
  /\ IF load.ok
     THEN /\ canvas' = Viz(loadFromJSON(load.state), currentPath, color,
                           activeSegmentId)
          /\ historyIndex' = load.target
     ELSE UNCHANGED <<canvas, historyIndex>>
  /\ op' = Ran("loadFromJSON", NoId, 0, FALSE, NoPoint)
  /\ UNCHANGED <<steps, snapAngles, dataURL, call>>
  /\ mon' = IF mon.stage = "undoing" THEN [mon EXCEPT !.stage = "undone"]
            ELSE IF mon.stage = "redoing" THEN [mon EXCEPT !.stage = "redone"]
            ELSE Idle
  /\ UNCHANGED <<history, segments, activeSegmentId, currentPath,
                 isDrawingPath, baseImage, activeTool, isDrawingMode, color, now>>

\* canvas.toDataURL: the objects with visible = true are drawn
Rendered(cv) == Shown(SelectSeq(cv, LAMBDA o : o.visible))

\* segmentPaths.forEach(obj => obj.set('visible', false))
HideSegmentPaths(cv) ==
  [i \in 1..Len(cv) |->
     IF cv[i].isSegmentPath = "true" THEN [cv[i] EXCEPT !.visible = FALSE]
     ELSE cv[i]]

\* segmentPaths.forEach(obj => obj.set('visible', true))
RestoreSegmentPaths(cv) ==
  [i \in 1..Len(cv) |->
     IF cv[i].isSegmentPath = "true" THEN [cv[i] EXCEPT !.visible = TRUE]
     ELSE cv[i]]

handleDownload ==
  /\ dataURL' = Rendered(HideSegmentPaths(canvas))
  /\ UNCHANGED snapAngles
  /\ canvas' = Viz(RestoreSegmentPaths(canvas), currentPath, color,
                   activeSegmentId)
  /\ op' = Ran("handleDownload", NoId, 0, FALSE, NoPoint)
  /\ steps' = steps + 1
  /\ UNCHANGED call
  /\ mon' = Idle
  /\ UNCHANGED <<history, historyIndex, segments, activeSegmentId, currentPath,
                 isDrawingPath, baseImage, activeTool, isDrawingMode, color,
                 now, pending>>

\* finalizePath entered directly, with any point list and closed flag
FinalizeCall(pathPoints, closed) ==
  /\ IF ~HasActiveSegment
     THEN /\ UNCHANGED <<canvas, segments, currentPath, isDrawingPath,
                         history, historyIndex>>
          /\ mon' = Idle
     ELSE /\ finalizePath(pathPoints, closed)
          /\ Mutated("finalizePath")
  /\ op' = Ran("finalizePath", activeSegmentId, Len(pathPoints), closed, NoPoint)
  /\ steps' = steps + 1
  /\ UNCHANGED <<snapAngles, dataURL, call>>
  /\ UNCHANGED <<activeSegmentId, baseImage, activeTool, isDrawingMode, color,
                 now, pending>>

\* the point lists handed to a direct finalizePath call
CallPaths == {<<>>, <<P0>>, <<P0, P1>>, <<P0, P1, P2>>}

\* the editor driven through create, draw, fill, delete, toggle, undo, redo;
\* successive regions are created at distinct clock readings
Next ==
  \/ (CanStep /\ ImageLoaded)
  \/ (CanStep /\ now < MaxClock /\ handleSegmentCreate(now + 1))
  \/ (CanStep /\ \E id \in SegmentIds : handleSegmentSelect(id))
  \/ (CanStep /\ \E id \in SegmentIds : handleSegmentDelete(id))
  \/ (CanStep /\ \E id \in SegmentIds : handleSegmentToggleVisibility(id))
  \/ (CanStep /\ \E tool \in ToolInputs : handleToolChange(tool))
  \/ (CanStep /\ \E id \in SegmentIds, c \in Colors : applyColorToSegment(id, c))
  \/ (CanStep /\ \E c \in Colors : handleColorChange(c))
  \/ (CanStep /\ \E point \in ClickInputs : MouseDownDraw(point))
  \/ (CanStep /\ handleUndo)
  \/ (CanStep /\ handleRedo)
  \/ \E load \in pending : LoadComplete(load)

Spec == Init /\ [][Next]_vars

\* finalizePath and applyColorToSegment entered directly, as operations of
\* the document, next to the handlers that set a region up
NextCall ==
  /\ steps < MaxCallSteps
  /\ \/ (now < MaxClock /\ handleSegmentCreate(now + 1))
     \/ \E id \in SegmentIds : handleSegmentDelete(id)
     \/ handleToolChange("line")
     \/ \E point \in ClickInputs : MouseDownDraw(point)
     \/ \E pathPoints \in CallPaths, closed \in BOOLEAN :
          FinalizeCall(pathPoints, closed)
     \/ \E id \in 1..MaxClock, c \in Colors : applyColorToSegment(id, c)
     \/ \E c \in Colors : handleColorChange(c)

SpecCall == Init /\ [][NextCall]_vars

\* point-click drawing on its own, over every click position
NextDraw ==
  \/ (CanStep /\ now < MaxClock /\ handleSegmentCreate(now + 1))
  \/ (CanStep /\ \E id \in SegmentIds : handleSegmentSelect(id))
  \/ (CanStep /\ \E tool \in {"line", "pen"} : handleToolChange(tool))
  \/ (CanStep /\ \E point \in Points : MouseDownDraw(point))

SpecDraw == Init /\ [][NextDraw]_vars

\* a long editing session: freehand strokes one after the other, with undo
NextHistory ==
  \/ (steps < MaxHistorySteps /\ ImageLoaded)
  \/ (steps < MaxHistorySteps /\ handleToolChange("pencil"))
  \/ (steps < MaxHistorySteps /\ PathCreated)
  \/ (steps < MaxHistorySteps /\ handleUndo)
  \/ \E load \in pending : LoadComplete(load)

SpecHistory == Init /\ [][NextHistory]_vars

\* regions created and deleted at any pace: Date.now() has millisecond
\* resolution, so two creations may read the same value
NextIds ==
  \/ (steps < MaxIdSteps /\
        \E t \in 1..MaxClock : t \in {now, now + 1} /\ handleSegmentCreate(t))
  \/ (steps < MaxIdSteps /\ \E id \in SegmentIds : handleSegmentSelect(id))
  \/ (steps < MaxIdSteps /\ \E id \in SegmentIds : handleSegmentDelete(id))
  \/ (steps < MaxIdSteps /\
        \E id \in SegmentIds : handleSegmentToggleVisibility(id))

SpecIds == Init /\ [][NextIds]_vars

\* drawing, freehand strokes, fills and visibility, followed by export
NextExport ==
  \/ (steps < MaxExportSteps /\ ImageLoaded)
  \/ (steps < MaxExportSteps /\ now < MaxClock /\ handleSegmentCreate(now + 1))
  \/ (steps < MaxExportSteps /\ \E tool \in ToolInputs : handleToolChange(tool))
  \/ (steps < MaxExportSteps /\ \E point \in ClickInputs : MouseDownDraw(point))
  \/ (steps < MaxExportSteps /\ PathCreated)
  \/ (steps < MaxExportSteps /\
        \E id \in SegmentIds : handleSegmentToggleVisibility(id))
  \/ (steps < MaxExportSteps /\
        \E id \in SegmentIds, c \in Colors : applyColorToSegment(id, c))
  \/ (steps < MaxExportSteps /\ handleUndo)
  \/ (steps < MaxExportSteps /\ handleRedo)
  \/ (steps < MaxExportSteps /\ handleDownload)
  \/ \E load \in pending : LoadComplete(load)

SpecExport == Init /\ [][NextExport]_vars

\* several regions drawn closed and filled, in any order
NextStack ==
  \/ (steps < MaxStackSteps /\ ImageLoaded)
  \/ (steps < MaxStackSteps /\ now < MaxClock /\ handleSegmentCreate(now + 1))
  \/ (steps < MaxStackSteps /\ handleToolChange("line"))
  \/ (steps < MaxStackSteps /\ \E point \in ClickInputs : MouseDownDraw(point))
  \/ (steps < MaxStackSteps /\
        \E id \in SegmentIds : applyColorToSegment(id, DefaultColor))

SpecStack == Init /\ [][NextStack]_vars

\* line drawing with the angle snap: the switch is thrown between paths, and
\* the clicks are those whose snapped point has whole coordinates
SnapClicks == {<<10, 10>>, <<100, 10>>, <<100, 12>>, <<16, 25>>, <<15, 12>>,
               <<100, 100>>}

NextSnap ==
  \/ (steps < MaxSnapSteps /\ now < MaxClock /\ handleSegmentCreate(now + 1))
  \/ (steps < MaxSnapSteps /\ handleToolChange("line"))
  \/ (steps < MaxSnapSteps /\ ~isDrawingPath /\ onSnapToAngleChange)
  \/ (steps < MaxSnapSteps /\
        \E point \in SnapClicks :
          /\ currentPath # <<>> => WholeSnap(point, currentPath[Len(currentPath)])
          /\ MouseDownDraw(point))

SpecSnap == Init /\ [][NextSnap]_vars

\* drawing while the active region changes: the clicks made while a region
\* is active come from that region's own row of the canvas, so that a stored
\* point tells under which region it was clicked
ClicksOf(id) == {<<10, 10 * id>>, <<100, 10 * id>>}

NextOwner ==
  \/ (steps < MaxOwnerSteps /\ now < MaxClock /\ handleSegmentCreate(now + 1))
  \/ (steps < MaxOwnerSteps /\ \E id \in SegmentIds : handleSegmentSelect(id))
  \/ (steps < MaxOwnerSteps /\ \E id \in SegmentIds : handleSegmentDelete(id))
  \/ (steps < MaxOwnerSteps /\ handleToolChange("line"))
  \/ (steps < MaxOwnerSteps /\
        \E point \in ClicksOf(activeSegmentId) : MouseDownDraw(point))

SpecOwner == Init /\ [][NextOwner]_vars

\* ------------------------------------------- bezierUtils.ts: compositing
\* A buffer is the sequence of its pixels, a pixel the record of its four
\* bytes; of a mask buffer only the red byte is read, so a mask is the
\* sequence of its red bytes.  The doubles of blendColors are carried in
\* hundredths (fixed point); an opacity is a fraction <<numerator, denominator>>.
Max(a, b) == IF a > b THEN a ELSE b

\* a store into a Uint8ClampedArray
Clamp8(x) == IF x < 0 THEN 0 ELSE IF x > 255 THEN 255 ELSE x

\* Math.sqrt(b / 255) * 255, in hundredths
SqrtTerm(b) == SqrtBetween(255 * b * 10000, 0, 25500)

BlendModes == {"multiply", "overlay", "soft-light", "color-burn", "normal"}

\* variant: the blend keeps the base color (the overlay is dropped)
Blended_NormalKeepsBase(mode, b, o) == b * 100

\* one channel of `result` before the opacity is applied, in hundredths
Blended(mode, b, o) ==
  CASE mode = "multiply" -> (b * o * 100) \div 255
    [] mode = "overlay" ->
         IF b < 128 THEN (2 * b * o * 100) \div 255
         ELSE 25500 - (2 * (255 - b) * (255 - o) * 100) \div 255
    [] mode = "soft-light" ->
         IF o < 128
         THEN b * 100 - ((255 - 2 * o) * b * (255 - b) * 100) \div (255 * 255)
         ELSE b * 100 + ((2 * o - 255) * (SqrtTerm(b) - b * 100)) \div 255
    [] mode = "color-burn" ->
         IF o = 0 THEN 0
         ELSE Max(0, 25500 - ((255 - b) * 255 * 100) \div o)
    [] OTHER -> o * 100

\* Math.round(base + (result - base) * opacity) of one channel
Mixed(mode, b, o, opacity) ==
  Round(b * 100 * opacity[2] + (Blended(mode, b, o) - b * 100) * opacity[1],
        100 * opacity[2])

\* variant: the opacity is not applied
blendColors_NoOpacity(baseColor, overlayColor, mode, opacity) ==
  [r |-> Round(Blended(mode, baseColor.r, overlayColor.r), 100),
   g |-> Round(Blended(mode, baseColor.g, overlayColor.g), 100),
   b |-> Round(Blended(mode, baseColor.b, overlayColor.b), 100),
   a |-> baseColor.a]

blendColors(baseColor, overlayColor, mode, opacity) ==
  [r |-> Mixed(mode, baseColor.r, overlayColor.r, opacity),
   g |-> Mixed(mode, baseColor.g, overlayColor.g, opacity),
   b |-> Mixed(mode, baseColor.b, overlayColor.b, opacity),
   a |-> baseColor.a]

\* mask.data[i]: the red byte of pixel i, 0 standing for undefined beyond the
\* end of a shorter mask (undefined > 0 is false)
MaskAt(mask, i) == IF i \in 1..Len(mask) THEN mask[i] ELSE 0

\* the pixels of `result` after the loop
MaskedResult(base, mask, fill, mode, opacity) ==
  [i \in 1..Len(base) |->
     IF MaskAt(mask, i) > 0
     THEN LET blendedColor == blendColors(base[i], fill, mode,
                                <<opacity[1] * mask[i], opacity[2] * 255>>)
          IN [r |-> Clamp8(blendedColor.r), g |-> Clamp8(blendedColor.g),
              b |-> Clamp8(blendedColor.b), a |-> Clamp8(blendedColor.a)]
     ELSE base[i]]

\* variant: the result is written into the base buffer itself
applyColorToMaskedRegion_InPlace(base, mask, fill, mode, opacity) ==
  [base |-> MaskedResult(base, mask, fill, mode, opacity),
   result |-> MaskedResult(base, mask, fill, mode, opacity)]

\* applyColorToMaskedRegion: the base buffer after the call and the result,
\* which is built on a copy of the base data
applyColorToMaskedRegion(base, mask, fill, mode, opacity) ==
  [base |-> base,
   result |-> MaskedResult(base, mask, fill, mode, opacity)]

\* the inputs of the compositing calls
PixelInputs ==
  { [r |-> 0, g |-> 100, b |-> 255, a |-> 255],
    [r |-> 200, g |-> 127, b |-> 128, a |-> 0],
    [r |-> 255, g |-> 1, b |-> 64, a |-> 128] }
FillInputs ==
  { [r |-> 255, g |-> 107, b |-> 107, a |-> 255],
    [r |-> 0, g |-> 128, b |-> 200, a |-> 100] }
MaskInputs == {0, 128, 255}
OpacityInputs == {<<0, 1>>, <<1, 2>>, <<1, 1>>}

BuffersOf(values) ==
  UNION {[1..n -> values] : n \in 1..MaxPixels}

InitBlend ==
  /\ EditorInit
  /\ call \in { [name |-> "input", given |-> base, base |-> base, mask |-> mask,
                 fill |-> fill, mode |-> mode, opacity |-> opacity,
                 result |-> <<>>] :
                 base \in BuffersOf(PixelInputs), mask \in BuffersOf(MaskInputs),
                 fill \in FillInputs, mode \in BlendModes,
                 opacity \in OpacityInputs }

ApplyColorCall ==
  /\ call.name = "input"
  /\ LET out == applyColorToMaskedRegion(call.base, call.mask, call.fill,
                                         call.mode, call.opacity)
     IN call' = [call EXCEPT !.name = "applyColorToMaskedRegion",
                             !.base = out.base, !.result = out.result]
  /\ UNCHANGED <<history, historyIndex, segments, activeSegmentId, currentPath,
                 isDrawingPath, canvas, baseImage, activeTool, isDrawingMode,
                 color, snapAngles, now, pending, dataURL, op, mon, steps>>

SpecBlend == InitBlend /\ [][ApplyColorCall]_vars

\* -------------------------------------------- bezierUtils.ts: flood fill
\* A point is <<x, y>>; pixel (x, y) of a buffer of the given width is
\* element y * width + x + 1 of its pixel sequence (pixelIndex / 4 + 1).
\* the color read at an index outside the data: every channel undefined
UndefinedColor == [r |-> -1, g |-> -1, b |-> -1, a |-> -1]

\* the color at imageData.data[pixelIndex .. pixelIndex + 3], k = pixelIndex / 4
ColorAt(data, k) ==
  IF k \in 0..(Len(data) - 1) THEN data[k + 1] ELSE UndefinedColor

\* isColorSimilar; a comparison with an undefined channel (NaN) is false
isColorSimilar(color1, color2, tolerance) ==
  /\ color1 # UndefinedColor
  /\ color2 # UndefinedColor
  /\ Abs(color1.r - color2.r) <= tolerance
  /\ Abs(color1.g - color2.g) <= tolerance
  /\ Abs(color1.b - color2.b) <= tolerance
  /\ Abs(color1.a - color2.a) <= tolerance

\* point.x < 0 || point.x >= width || point.y < 0 || point.y >= height
OutOfBounds(point, width, height) ==
  point[1] < 0 \/ point[1] >= width \/ point[2] < 0 \/ point[2] >= height

\* variant: the mask is not consulted
MaskedOut_Unchecked(mask, k) == FALSE

\* mask.data[maskIndex] === 0
MaskedOut(mask, k) == k \in 0..(Len(mask) - 1) /\ mask[k + 1] = 0

\* the four neighbors pushed on the stack, in the order of the push
Neighbors(point) ==
  << <<point[1] - 1, point[2]>>, <<point[1] + 1, point[2]>>,
     <<point[1], point[2] - 1>>, <<point[1], point[2] + 1>> >>

\* the inputs of the flood fill: three grays, the second within 10 of the
\* first in every channel, the third within 10 of the second only
GrayA == [r |-> 100, g |-> 100, b |-> 100, a |-> 255]
GrayB == [r |-> 105, g |-> 110, b |-> 100, a |-> 255]
GrayC == [r |-> 105, g |-> 111, b |-> 100, a |-> 245]
FloodColors == {GrayA, GrayB, GrayC}
FloodFill == [r |-> 255, g |-> 0, b |-> 0, a |-> 255]
Heights == {1, 2}
Tolerances == {9, 10}

\* masks that cover everything, or everything but one pixel
FloodMasks(n) ==
  {[i \in 1..n |-> 255]}
    \cup {[i \in 1..n |-> IF i = hole THEN 0 ELSE 255] : hole \in 1..n}

\* seeds inside the image and just outside of it
FloodSeeds(width, height) ==
  ((0..(width - 1)) \X (0..(height - 1)))
    \cup {<<-1, 0>>, <<width, 0>>, <<0, height>>}

InitFlood ==
  /\ EditorInit
  /\ \E height \in Heights :
       call \in { [name |-> "input", width |-> MaxWidth, height |-> height,
                   imageData |-> imageData, mask |-> mask,
                   startPoint |-> startPoint, fillColor |-> FloodFill,
                   tolerance |-> tolerance, startColor |-> UndefinedColor,
                   stack |-> <<>>, visited |-> {}, passed |-> <<>>,
                   data |-> <<>>] :
                   imageData \in [1..(MaxWidth * height) -> FloodColors],
                   mask \in FloodMasks(MaxWidth * height),
                   startPoint \in FloodSeeds(MaxWidth, height),
                   tolerance \in Tolerances }

\* variant: the visited set is not consulted
AlreadyVisited_Unchecked(point) == FALSE

\* visited.has(key)
AlreadyVisited(point) == point \in call.visited

\* floodFillInMask up to the loop: the copy, the start color and the stack
FloodStart ==
  /\ call.name = "input"
  /\ call' = [call EXCEPT
       !.name = "floodFillInMask",
       !.data = call.imageData,
       !.startColor = ColorAt(call.imageData,
                              call.startPoint[2] * call.width
                                + call.startPoint[1]),
       !.stack = <<call.startPoint>>,
       !.visited = {}]
  /\ UNCHANGED <<history, historyIndex, segments, activeSegmentId, currentPath,
                 isDrawingPath, canvas, baseImage, activeTool, isDrawingMode,
                 color, snapAngles, now, pending, dataURL, op, mon, steps>>

\* one iteration of while (stack.length > 0); passed lists the positions
\* that got past the visited check, in order
FloodStep ==
  /\ call.name = "floodFillInMask"
  /\ call.stack # <<>>
  /\ LET point == call.stack[Len(call.stack)]
         popped == SubSeq(call.stack, 1, Len(call.stack) - 1)
         k == point[2] * call.width + point[1]
     IN IF AlreadyVisited(point)
        THEN call' = [call EXCEPT !.stack = popped]
        ELSE IF \/ OutOfBounds(point, call.width, call.height)
                \/ MaskedOut(call.mask, k)
                \/ ~isColorSimilar(call.startColor, ColorAt(call.imageData, k),
                                   call.tolerance)
        THEN call' = [call EXCEPT !.stack = popped,
                                  !.visited = call.visited \cup {point},
                                  !.passed = Append(call.passed, point)]
        ELSE call' = [call EXCEPT !.stack = popped \o Neighbors(point),
                                  !.visited = call.visited \cup {point},
                                  !.passed = Append(call.passed, point),
                                  !.data[k + 1] = call.fillColor]
  /\ UNCHANGED <<history, historyIndex, segments, activeSegmentId, currentPath,
                 isDrawingPath, canvas, baseImage, activeTool, isDrawingMode,
                 color, snapAngles, now, pending, dataURL, op, mon, steps>>

\* return result, once the stack is empty
FloodReturn ==
  /\ call.name = "floodFillInMask"
  /\ call.stack = <<>>
  /\ call' = [call EXCEPT !.name = "returned"]
  /\ UNCHANGED <<history, historyIndex, segments, activeSegmentId, currentPath,
                 isDrawingPath, canvas, baseImage, activeTool, isDrawingMode,
                 color, snapAngles, now, pending, dataURL, op, mon, steps>>

NextFlood == FloodStart \/ FloodStep \/ FloodReturn

SpecFlood == InitFlood /\ [][NextFlood]_vars

\* the call runs on: a loop that can take its next iteration takes it
SpecFloodFair == SpecFlood /\ WF_vars(NextFlood)

\* ------------------------------------- bezierUtils.ts: simplifyPolygon
\* Distances are compared through their squares, kept as exact fractions
\* [n, d] with d > 0 (the code compares the square roots, in doubles).
\* pointToLineDistance(point, lineStart, lineEnd), squared
pointToLineDistance(point, lineStart, lineEnd) ==
  LET A == point[1] - lineStart[1]
      B == point[2] - lineStart[2]
      C == lineEnd[1] - lineStart[1]
      D == lineEnd[2] - lineStart[2]
      dot == A * C + B * D
      lenSq == C * C + D * D
  IN IF lenSq = 0 THEN [n |-> A * A + B * B, d |-> 1]
     ELSE IF dot < 0 THEN [n |-> A * A + B * B, d |-> 1]
     ELSE IF dot > lenSq THEN [n |-> DistSq(point, lineEnd), d |-> 1]
     ELSE [n |-> (A * D - B * C) * (A * D - B * C), d |-> lenSq]

\* distance > maxDistance
Farther(distance, maxDistance) ==
  distance.n * maxDistance.d > maxDistance.n * distance.d

\* the loop over the inner points (1-based i), best = [index, distance]
RECURSIVE Farthest(_, _, _)
Farthest(points, i, best) ==
  IF i > Len(points) - 1 THEN best
  ELSE LET distance == pointToLineDistance(points[i], points[1],
                                           points[Len(points)])
       IN Farthest(points, i + 1,
                   IF Farther(distance, best.distance)
                   THEN [index |-> i, distance |-> distance]
                   ELSE best)

\* simplifyPolygon(points, tolerance), tolerance a non-negative integer
RECURSIVE simplifyPolygon(_, _)
simplifyPolygon(points, tolerance) ==
  IF Len(points) <= 2 THEN points
  ELSE LET best == Farthest(points, 2, [index |-> 1,
                                        distance |-> [n |-> 0, d |-> 1]])
       IN IF best.distance.n > tolerance * tolerance * best.distance.d
          THEN LET firstHalf ==
                     simplifyPolygon(SubSeq(points, 1, best.index), tolerance)
                   secondHalf ==
                     simplifyPolygon(SubSeq(points, best.index, Len(points)),
                                     tolerance)
               IN SubSeq(firstHalf, 1, Len(firstHalf) - 1) \o secondHalf
          ELSE <<points[1], points[Len(points)]>>

\* the inputs: polygons of pairwise distinct points of a small lattice
LatticePoints == (0..2) \X (0..1)
ToleranceInputs == {0, 1}

Polygons ==
  UNION { {poly \in [1..n -> LatticePoints] :
             \A i, j \in 1..n : poly[i] = poly[j] => i = j} :
          n \in 3..MaxPolygon }

InitSimplify ==
  /\ EditorInit
  /\ call \in { [name |-> "input", points |-> points, tolerance |-> tolerance,
                 result |-> <<>>] :
                 points \in Polygons, tolerance \in ToleranceInputs }

SimplifyCall ==
  /\ call.name = "input"
  /\ call' = [call EXCEPT !.name = "simplifyPolygon",
                          !.result = simplifyPolygon(call.points,
                                                     call.tolerance)]
  /\ UNCHANGED <<history, historyIndex, segments, activeSegmentId, currentPath,
                 isDrawingPath, canvas, baseImage, activeTool, isDrawingMode,
                 color, snapAngles, now, pending, dataURL, op, mon, steps>>

SpecSimplify == InitSimplify /\ [][SimplifyCall]_vars

\* ----------------------------------------- bezierUtils.ts: morphology
\* A mask buffer is the row-major sequence of its pixels [r, g, b, a].
\* Math.floor(kernelSize / 2)
Radius(kernelSize) == kernelSize \div 2

\* the pixels the two loops over y and x visit, as 0-based <<x, y>>
Processed(width, height, kernelSize) ==
  (Radius(kernelSize)..(width - Radius(kernelSize) - 1))
    \X (Radius(kernelSize)..(height - Radius(kernelSize) - 1))

\* the red bytes mask.data[idx] read under the kernel centred on <<x, y>>
Window(mask, width, kernelSize, x, y) ==
  {mask[(y + ky) * width + (x + kx) + 1].r :
     ky \in (-Radius(kernelSize))..Radius(kernelSize),
     kx \in (-Radius(kernelSize))..Radius(kernelSize)}

\* Math.max over the window, starting from 0
MaxValue(values) == CHOOSE v \in values \cup {0} : \A w \in values : w <= v

\* Math.min over the window, starting from 255
MinValue(values) == CHOOSE v \in values \cup {255} : \A w \in values : v <= w

morphologyDilate(mask, width, height, kernelSize) ==
  [i \in 1..Len(mask) |->
     LET x == (i - 1) % width
         y == (i - 1) \div width
     IN IF <<x, y>> \in Processed(width, height, kernelSize)
        THEN LET maxValue == MaxValue(Window(mask, width, kernelSize, x, y))
             IN [r |-> maxValue, g |-> maxValue, b |-> maxValue, a |-> 255]
        ELSE mask[i]]

\* variant: the erosion is left out
morphologyErode_Skipped(mask, width, height, kernelSize) == mask

morphologyErode(mask, width, height, kernelSize) ==
  [i \in 1..Len(mask) |->
     LET x == (i - 1) % width
         y == (i - 1) \div width
     IN IF <<x, y>> \in Processed(width, height, kernelSize)
        THEN LET minValue == MinValue(Window(mask, width, kernelSize, x, y))
             IN [r |-> minValue, g |-> minValue, b |-> minValue, a |-> 255]
        ELSE mask[i]]

morphologyClose(mask, width, height, kernelSize) ==
  morphologyErode(morphologyDilate(mask, width, height, kernelSize),
                  width, height, kernelSize)

\* createPolygonMask of an axis-parallel rectangle x0..x1 by y0..y1 (a convex
\* polygon): white inside, transparent black outside
White == [r |-> 255, g |-> 255, b |-> 255, a |-> 255]
Clear == [r |-> 0, g |-> 0, b |-> 0, a |-> 0]

RectangleMask(side, x0, x1, y0, y1) ==
  [i \in 1..(side * side) |->
     IF /\ (i - 1) % side \in x0..x1
        /\ (i - 1) \div side \in y0..y1
     THEN White ELSE Clear]

KernelSizes == {1, 2, 3, 5}

InitMorphology ==
  /\ EditorInit
  /\ call \in { [name |-> "input", width |-> MaskSide, height |-> MaskSide,
                 mask |-> RectangleMask(MaskSide, x0, x1, y0, y1),
                 kernelSize |-> kernelSize, closed |-> <<>>, again |-> <<>>] :
                 x0 \in 0..(MaskSide - 1), x1 \in 0..(MaskSide - 1),
                 y0 \in 0..(MaskSide - 1), y1 \in 0..(MaskSide - 1),
                 kernelSize \in KernelSizes }

\* closed = morphologyClose(mask, kernelSize)
CloseCall ==
  /\ call.name = "input"
  /\ call' = [call EXCEPT
       !.name = "morphologyClose",
       !.closed = morphologyClose(call.mask, call.width, call.height,
                                  call.kernelSize)]
  /\ UNCHANGED <<history, historyIndex, segments, activeSegmentId, currentPath,
                 isDrawingPath, canvas, baseImage, activeTool, isDrawingMode,
                 color, snapAngles, now, pending, dataURL, op, mon, steps>>

\* again = morphologyClose(closed, kernelSize)
CloseAgainCall ==
  /\ call.name = "morphologyClose"
  /\ call' = [call EXCEPT
       !.name = "morphologyCloseAgain",
       !.again = morphologyClose(call.closed, call.width, call.height,
                                 call.kernelSize)]
  /\ UNCHANGED <<history, historyIndex, segments, activeSegmentId, currentPath,
                 isDrawingPath, canvas, baseImage, activeTool, isDrawingMode,
                 color, snapAngles, now, pending, dataURL, op, mon, steps>>

NextMorphology == CloseCall \/ CloseAgainCall

SpecMorphology == InitMorphology /\ [][NextMorphology]_vars

\* ------------------------------------------------------------------ claims
\* a step in which a handler committed a mutation (called saveState)
Committed == mon'.stage = "mutated"

\* C1: a committed mutation (path finalized, fill applied, region deleted)
\* followed immediately by undo leaves the whole document - the region list
\* with points, closed, color and visible, and the fills on the canvas - as it
\* was before the mutation.
C1_UndoRestoresDocument ==
  (/\ mon.stage = "undone"
   /\ mon.kind \in {"finalizePath", "applyColorToSegment", "handleSegmentDelete"})
    => Doc = mon.pre

FillLayer(shown) == SelectSeq(shown, LAMBDA o : o.type = "image" \/ IsFill(o))

C4_UndoRedoOutOfRangeNoop ==
  [][(\/ op'.name = "handleUndo" /\ historyIndex <= 0
      \/ op'.name = "handleRedo" /\ historyIndex >= Len(history) - 1)
       => UNCHANGED <<history, historyIndex, canvas, segments, pending>>]_vars

C4_Witness ==
  /\ op.name = "handleUndo"
  /\ historyIndex = 0
  /\ Len(history) > 1
  /\ pending = {}

\* the region a fill is asked for is missing, open or has fewer than 3 points
NotFillableRegion(id) ==
  LET hit == Find(segments, id)
  IN hit = <<>> \/ ~hit[1].closed \/ Len(hit[1].points) < 3

\* C5: applyFill on a region that does not exist, is not closed or has fewer
\* than 3 points adds and removes no fill object, leaves every region's color
\* alone and pushes no snapshot.
C5_FillRejectedWithoutMutation ==
  [][(\/ op'.name = "applyColorToSegment" /\ NotFillableRegion(op'.id)
      \/ op'.name = "handleColorChange" /\ NotFillableRegion(activeSegmentId))
       => /\ Shown(Fills(canvas')) = Shown(Fills(canvas))
          /\ segments' = segments
          /\ history' = history
          /\ historyIndex' = historyIndex]_vars

C5_Witness ==
  /\ op.name = "applyColorToSegment"
  /\ Find(segments, op.id) # <<>>
  /\ ~Find(segments, op.id)[1].closed
  /\ Len(Find(segments, op.id)[1].points) >= 3
  /\ mon.stage = "idle"

\* C6: with no active region a click in line or pen mode and a finalize call
\* change nothing: the current path, the drawing flag, every region and the
\* history stay as they are.
C6_NoActiveRegionNoop ==
  [][(/\ activeSegmentId = NoId
      /\ \/ op'.name = "handleCanvasMouseDown" /\ activeTool \in {"line", "pen"}
         \/ op'.name = "finalizePath")
       => UNCHANGED <<currentPath, isDrawingPath, segments, history,
                      historyIndex, canvas>>]_vars

C6_Witness ==
  /\ op.name = "finalizePath"
  /\ op.id = NoId
  /\ op.n >= 3
  /\ segments # <<>>
  /\ activeSegmentId = NoId

\* the region list with the active region's path replaced
WithPath(segs, id, pathPoints, closed) ==
  [i \in 1..Len(segs) |->
     IF segs[i].id = id
     THEN [segs[i] EXCEPT !.points = pathPoints, !.closed = closed]
     ELSE segs[i]]

\* C7: after a click is appended in line or pen mode the path auto-closes
\* exactly when it has more than 2 points and the new point is at Euclidean
\* distance <= 15 of the first point; the region then holds the clicked
\* points plus a repeat of the first, closed; otherwise the path stays open
\* and in progress.
C7_AutoCloseWithinTolerance ==
  [][(/\ op'.name = "handleCanvasMouseDown"
      /\ activeTool \in {"line", "pen"}
      /\ activeSegmentId # NoId
      /\ isDrawingPath)
       => LET newPath == Append(currentPath, op'.pt)
          IN IF /\ Len(newPath) > 2
                /\ DistSq(op'.pt, newPath[1]) <= CloseTolerance * CloseTolerance
             THEN segments' = WithPath(segments, activeSegmentId,
                                       Append(newPath, newPath[1]), TRUE)
             ELSE /\ currentPath' = newPath
                  /\ isDrawingPath'
                  /\ segments' = segments]_vars

Outlines(cv) ==
  SelectSeq(cv, LAMBDA o : o.segmentId # NoId /\ o.isSegmentPath = "true")

C10_FillsBelongToClosedRegions ==
  \A i \in 1..Len(canvas) :
    IsFill(canvas[i]) =>
      \E j \in 1..Len(segments) :
        /\ segments[j].id = canvas[i].segmentId
        /\ segments[j].closed
        /\ Len(segments[j].points) >= 3

\* C11: toggling the visibility of a region of the document pushes one
\* snapshot: the history holds one more snapshot than the cursor had behind
\* it and the cursor is on the new, last snapshot (so that undo has the
\* previous visibility to go back to).
C11_ToggleVisibilityPushesSnapshot ==
  [][(/\ op'.name = "handleSegmentToggleVisibility"
      /\ Find(segments, op'.id) # <<>>)
       => /\ Len(history') = historyIndex + 2
          /\ historyIndex' = Len(history') - 1]_vars

\* C12: after any number of committed mutations the history holds at most
\* 20 snapshots.
C12_HistoryAtMostCap == Len(history) <= HistoryCap

\* C13: no two regions of the document have the same id, also when regions
\* are created at the same clock reading or after a deletion.
C13_RegionIdsUnique ==
  \A i, j \in 1..Len(segments) : segments[i].id = segments[j].id => i = j

\* C14: what export renders holds nothing but the base image and region
\* fills: outlines, freehand strokes, the preview path and the control-point
\* circles are hidden at that moment.
C14_ExportShowsOnlyImageAndFills ==
  \A i \in 1..Len(dataURL) :
    dataURL[i].type = "image" \/ IsFill(dataURL[i])

\* C15: right after an export, every fill in the rendered image belongs to a
\* region that is currently visible and closed.
C15_ExportedFillsOfVisibleClosedRegions ==
  op.name = "handleDownload" =>
    \A i \in 1..Len(dataURL) :
      IsFill(dataURL[i]) =>
        \E j \in 1..Len(segments) :
          /\ segments[j].id = dataURL[i].segmentId
          /\ segments[j].visible
          /\ segments[j].closed

\* the position of the fill of region id in the stack (0 when it has none)
FillIndex(cv, id) ==
  IF \E i \in 1..Len(cv) : IsFillOf(cv[i], id)
  THEN CHOOSE i \in 1..Len(cv) : IsFillOf(cv[i], id)
  ELSE 0

\* C16: fills are stacked in region order: of two filled regions, the fill
\* of the one that comes earlier in the region list is below the other's.
C16_FillsStackedInRegionOrder ==
  \A i, j \in 1..Len(segments) :
    (/\ i < j
     /\ FillIndex(canvas, segments[i].id) # 0
     /\ FillIndex(canvas, segments[j].id) # 0)
      => FillIndex(canvas, segments[i].id) < FillIndex(canvas, segments[j].id)

\* the compositing call has returned
Composited == call.name = "applyColorToMaskedRegion"

\* C17: with opacity 0 the buffer returned by applyColorToMaskedRegion equals
\* the base image in every channel of every pixel, whatever the mask, the
\* fill color and the blend mode.
C17_ZeroOpacityIsIdentity ==
  (Composited /\ call.opacity[1] = 0) => call.result = call.given

C17_Witness ==
  /\ Composited
  /\ call.opacity[1] = 0
  /\ call.mode = "color-burn"
  /\ \E i \in 1..Len(call.given) : MaskAt(call.mask, i) = 255
  /\ call.result = call.given

\* C18: in mode normal with opacity 1, every pixel whose mask value is 255
\* comes out with the R, G, B of the fill color.
C18_NormalFullOpacityGivesFill ==
  (Composited /\ call.mode = "normal" /\ call.opacity = <<1, 1>>)
    => \A i \in 1..Len(call.given) :
         MaskAt(call.mask, i) = 255
           => /\ call.result[i].r = call.fill.r
              /\ call.result[i].g = call.fill.g
              /\ call.result[i].b = call.fill.b

C18_Witness ==
  /\ Composited
  /\ call.mode = "normal"
  /\ call.opacity = <<1, 1>>
  /\ \E i \in 1..Len(call.given) :
       /\ MaskAt(call.mask, i) = 255
       /\ call.given[i].r # call.fill.r
       /\ call.result[i].r = call.fill.r

\* C19: applyColorToMaskedRegion leaves the base buffer as it was given; the
\* result has the base alpha in every pixel and the base pixel wherever the
\* mask value is 0.
C19_BaseAlphaAndUnmaskedKept ==
  Composited
    => /\ call.base = call.given
       /\ Len(call.result) = Len(call.given)
       /\ \A i \in 1..Len(call.given) :
            /\ call.result[i].a = call.given[i].a
            /\ MaskAt(call.mask, i) = 0 => call.result[i] = call.given[i]

C19_Witness ==
  /\ Composited
  /\ call.base = call.given
  /\ \E i, j \in 1..Len(call.given) :
       /\ MaskAt(call.mask, i) = 0
       /\ MaskAt(call.mask, j) > 0
       /\ call.result[j] # call.given[j]
       /\ call.result[i] = call.given[i]

\* the pixels of the image of the call, as points
Grid == (0..(call.width - 1)) \X (0..(call.height - 1))

PixelOf(data, point) == data[point[2] * call.width + point[1] + 1]

\* an in-bounds pixel inside the mask whose color is within the tolerance of
\* the color of the seed pixel, in every channel
Eligible(point) ==
  /\ point \in Grid
  /\ call.startPoint \in Grid
  /\ PixelOf(call.mask, point) # 0
  /\ LET c == PixelOf(call.imageData, point)
         s == PixelOf(call.imageData, call.startPoint)
     IN /\ Abs(c.r - s.r) <= call.tolerance
        /\ Abs(c.g - s.g) <= call.tolerance
        /\ Abs(c.b - s.b) <= call.tolerance
        /\ Abs(c.a - s.a) <= call.tolerance

Adjacent(p, q) == Abs(p[1] - q[1]) + Abs(p[2] - q[2]) = 1

\* the eligible pixels 4-connected to the seed through eligible pixels
RECURSIVE Grow(_)
Grow(region) ==
  LET more == {p \in Grid \ region :
                 Eligible(p) /\ \E q \in region : Adjacent(p, q)}
  IN IF more = {} THEN region ELSE Grow(region \cup more)

Connected == IF Eligible(call.startPoint) THEN Grow({call.startPoint}) ELSE {}

\* C20: floodFillInMask paints exactly the pixels 4-connected to the seed
\* through in-bounds pixels inside the mask and within the tolerance of the
\* seed pixel's color; every other pixel of the output equals the input.
C20_FloodFillPaintsConnectedRegion ==
  call.name = "returned"
    => /\ Len(call.data) = Len(call.imageData)
       /\ \A p \in Grid :
            PixelOf(call.data, p) = IF p \in Connected
                                    THEN call.fillColor
                                    ELSE PixelOf(call.imageData, p)

C20_Witness ==
  /\ call.name = "returned"
  /\ Cardinality(Connected) >= 2
  /\ \E p \in Grid \ Connected : PixelOf(call.mask, p) = 0
  /\ \E p \in Grid \ Connected : PixelOf(call.mask, p) # 0
  /\ \A p \in Connected : PixelOf(call.data, p) = call.fillColor

\* no position occurs twice in a list of positions
NoRepeat(points) ==
  \A i, j \in 1..Len(points) : points[i] = points[j] => i = j

\* C21: floodFillInMask terminates - the stack empties and the call returns -
\* and no position gets past the visited check more than once.
C21_FloodFillTerminates ==
  /\ <>(call.name = "returned")
  /\ [](call.name \in {"floodFillInMask", "returned"} => NoRepeat(call.passed))

\* a uniform image under a full mask, filled to the last pixel
C21_Witness ==
  /\ call.name = "returned"
  /\ call.height = 2
  /\ \A i \in 1..Len(call.imageData) :
       call.imageData[i] = GrayA /\ call.mask[i] = 255
  /\ \A i \in 1..Len(call.data) : call.data[i] = call.fillColor
  /\ Len(call.passed) > Len(call.imageData)

\* C22: simplifyPolygon with tolerance 0 returns its input unchanged, for
\* every sequence of at least 3 pairwise distinct points.
C22_ZeroToleranceKeepsPolygon ==
  (call.name = "simplifyPolygon" /\ call.tolerance = 0)
    => call.result = call.points

\* C23: for a mask rasterized from a convex polygon, closing the closed mask
\* again gives the closed mask, pixel for pixel, for every kernel size.
C23_CloseIsIdempotent ==
  call.name = "morphologyCloseAgain" => call.again = call.closed

\* a rectangle touching the border whose closing differs from the mask
C23_Witness ==
  /\ call.name = "morphologyCloseAgain"
  /\ call.kernelSize = 3
  /\ call.mask[1] = White
  /\ call.closed # call.mask
  /\ \E i \in 1..Len(call.closed) : call.closed[i].r = 255
  /\ call.again = call.closed

\* C30: morphologyClose never removes coverage: every pixel of the closed
\* mask has a mask value at least its value in the input mask.
C30_CloseKeepsCoverage ==
  call.name \in {"morphologyClose", "morphologyCloseAgain"}
    => \A i \in 1..Len(call.mask) : call.closed[i].r >= call.mask[i].r

\* an edge between two points with whole coordinates has a direction that is
\* a multiple of Math.PI / 8 exactly when it is parallel to an axis or to a
\* diagonal (the tangent of 22.5 degrees is irrational)
OnSnapGrid(a, b) ==
  \/ a[1] = b[1]
  \/ a[2] = b[2]
  \/ Abs(a[1] - b[1]) = Abs(a[2] - b[2])

\* C24: in line mode with the angle snap on, every edge of a polygon that a
\* click finalizes by auto-close is on the snap grid, the closing edge back
\* to the first point included
C24_AutoClosedEdgesOnSnapGrid ==
  [][(/\ op'.name = "handleCanvasMouseDown"
      /\ mon'.stage = "mutated"
      /\ mon'.kind = "finalizePath"
      /\ activeTool = "line"
      /\ snapAngles)
     => \A i \in 1..Len(segments') :
          segments'[i].id = activeSegmentId =>
            \A j \in 1..(Len(segments'[i].points) - 1) :
              OnSnapGrid(segments'[i].points[j], segments'[i].points[j + 1])]_vars

IsOutline(o) == o.type = "path" /\ o.fill = "" /\ o.ref # "temp"

\* C26: in every reachable state the canvas stack is layered base image,
\* then color fills, then outlines: the image is below every fill and every
\* fill below every outline
C26_StackLayered ==
  \A i, j \in 1..Len(canvas) :
    i < j => /\ ~(IsFill(canvas[i]) /\ canvas[j].type = "image")
             /\ ~(IsOutline(canvas[i]) /\ canvas[j].type = "image")
             /\ ~(IsOutline(canvas[i]) /\ IsFill(canvas[j]))

\* C27: restores are atomic with respect to the other operations: whatever
\* was issued while a load was pending, once the last pending load has
\* completed the cursor is within the history and the canvas content is the
\* snapshot at the cursor
C27_RestoreAtomic ==
  (op.name = "loadFromJSON" /\ pending = {})
    => /\ historyIndex \in 0..(Len(history) - 1)
       /\ toJSON(RemoveTemp(canvas)) = history[historyIndex + 1]

\* C28: points clicked while one region is active are never stored into
\* another: every point a region holds was clicked while that region was the
\* active one, also when the active region changed during the path
C28_PointsStayWithTheirRegion ==
  \A i \in 1..Len(segments) :
    \A j \in 1..Len(segments[i].points) :
      segments[i].points[j] \in ClicksOf(segments[i].id)

\* C29: export changes no state: after handleDownload every canvas object
\* has the visible flag it had before (the outline of a hidden region stays
\* hidden), and the region list, the active region, the current path and the
\* history are as they were
C29_ExportChangesNothing ==
  [][(op'.name = "handleDownload" /\ steps' = steps + 1)
     => /\ Len(canvas') = Len(canvas)
        /\ \A i \in 1..Len(canvas) : canvas'[i].visible = canvas[i].visible
        /\ segments' = segments
        /\ activeSegmentId' = activeSegmentId
        /\ currentPath' = currentPath
        /\ history' = history
        /\ historyIndex' = historyIndex]_vars

====
